---- MODULE Spec2Model ----
(***************************************************************************)
(* Model of "Funny File Filters" (src/main.py): the command line program   *)
(* that builds one task per traversed path and selected filter, cuts the   *)
(* task list into max_processes chunks with split_list, submits one        *)
(* filter_and_save_multiple call per non-empty chunk to a process pool and *)
(* prints the outcomes of each future as it completes.                     *)
(*                                                                         *)
(* Spec      : the whole run of main() with its pool workers interleaved.  *)
(* FairSpec  : Spec with the fairness the process pool gives (every        *)
(*             submitted call keeps running, the main loop keeps waiting). *)
(* SplitSpec : split_list alone, applied to bounded job lists.             *)
(***************************************************************************)
EXTENDS Integers, Sequences, FiniteSets

VARIABLES
    pc,                \* position of main(): "start", "build", "dispatch", "wait", "done", "rejected", "aborted"
    max_processes,     \* args.processes
    sort_by_filter,    \* args.sort_by_filter
    other_files,       \* OtherFileActions value: "copy", "template", "dont_copy"
    filters_to_apply,  \* the selected filter names, in dict order
    input_kind,        \* "file" or "dir": what input_path is
    input_tree,        \* the entries input_path.rglob("*") yields (or the input file itself)
    task_arguments,    \* the list main() builds
    created_dirs,      \* directories made below output_path (paths relative to it)
    chunked,           \* split_list(task_arguments, max_processes)
    wstate,            \* per chunk: "none" (not submitted), "running", "done", "raised"
    wpos,              \* per chunk: number of tasks of the chunk the worker is past
    wresult,           \* per chunk: the worker's local list "result"
    werr,              \* per chunk: the exception that left the worker ("none" if none)
    written,           \* destination writes done: records [job, path]
    consumed,          \* futures whose result() the main loop has taken
    reported,          \* outcomes printed by the main loop, in order
    sl_input,          \* SplitSpec: the list handed to split_list
    sl_x,              \* SplitSpec: the chunk count handed to split_list
    sl_out,            \* SplitSpec: what split_list returned
    sl_pc              \* SplitSpec: "off", "input", "done"

vars == <<pc, max_processes, sort_by_filter, other_files, filters_to_apply, input_kind,
          input_tree, task_arguments, created_dirs, chunked, wstate, wpos, wresult, werr,
          written, consumed, reported, sl_input, sl_x, sl_out, sl_pc>>

mainVars == <<pc, max_processes, sort_by_filter, other_files, filters_to_apply, input_kind,
              input_tree, task_arguments, created_dirs, chunked, wstate, wpos, wresult, werr,
              written, consumed, reported>>

splitVars == <<sl_input, sl_x, sl_out, sl_pc>>

(***************************************************************************)
(* Bounds of the model.                                                    *)
(***************************************************************************)
\* most entries a traversed input folder holds
MaxFiles == 3
\* largest accepted worker count tried
MaxProcesses == 3
\* longest list handed to split_list in SplitSpec
MaxLen == 5
\* largest chunk count handed to split_list in SplitSpec
MaxX == 3

\* the ceiling of args.processes
MaxAllowedProcesses == 61

(***************************************************************************)
(* Small helpers on sequences.                                             *)
(***************************************************************************)
Min(a, b) == IF a <= b THEN a ELSE b

\* Python's input_list[lo:hi] with 0-based lo, hi (clamped to the list)
Slice(s, lo, hi) ==
    LET l == Min(lo, Len(s))
        h == Min(hi, Len(s))
    IN  IF h <= l THEN <<>> ELSE SubSeq(s, l + 1, h)

RECURSIVE Flatten(_)
Flatten(ss) == IF ss = <<>> THEN <<>> ELSE Head(ss) \o Flatten(Tail(ss))

RECURSIVE Sum(_)
Sum(s) == IF s = <<>> THEN 0 ELSE Head(s) + Sum(Tail(s))

Range(s) == {s[i] : i \in DOMAIN s}

Costs(batch) == [i \in DOMAIN batch |-> batch[i].cost]

(***************************************************************************)
(* Greedy longest-processing-time-first partitioning: jobs in descending    *)
(* cost, each into the batch with the lowest accumulated cost (lowest      *)
(* index on ties).  main() never calls anything of the kind (the test      *)
(* module's partition_integers is an unused experiment with it); it is     *)
(* what split_list is compared with.                                       *)
(***************************************************************************)
\* position of the first job of largest cost (stable: lowest index on ties)
FirstMax(s) ==
    CHOOSE i \in DOMAIN s :
        /\ \A j \in DOMAIN s : s[j].cost <= s[i].cost
        /\ \A j \in DOMAIN s : j < i => s[j].cost < s[i].cost

RemoveAt(s, i) == SubSeq(s, 1, i - 1) \o SubSeq(s, i + 1, Len(s))

RECURSIVE SortDesc(_)
SortDesc(s) ==
    IF s = <<>> THEN <<>>
    ELSE LET i == FirstMax(s) IN <<s[i]>> \o SortDesc(RemoveAt(s, i))

LowestBatch(result) ==
    CHOOSE i \in DOMAIN result :
        /\ \A j \in DOMAIN result : Sum(Costs(result[i])) <= Sum(Costs(result[j]))
        /\ \A j \in DOMAIN result : j < i => Sum(Costs(result[i])) < Sum(Costs(result[j]))

RECURSIVE LptAssign(_, _)
LptAssign(sorted, result) ==
    IF sorted = <<>> THEN result
    ELSE LET i == LowestBatch(result)
         IN  LptAssign(Tail(sorted), [result EXCEPT ![i] = Append(@, Head(sorted))])

split_list_lpt(input_list, x) ==
    LptAssign(SortDesc(input_list), [i \in 1..x |-> <<>>])

\* a split that loses the remainder: every chunk gets k elements
split_list_truncating(input_list, x) ==
    LET k == Len(input_list) \div x
    IN  [j \in 1..x |-> Slice(input_list, (j - 1) * k, j * k)]

\* a split that deals the elements out round-robin
split_list_round_robin(input_list, x) ==
    [j \in 1..x |->
        LET idx == {i \in 1..Len(input_list) : ((i - 1) % x) + 1 = j}
            f[n \in 0..Len(input_list)] ==
                IF n = 0 THEN <<>>
                ELSE IF n \in idx THEN Append(f[n - 1], input_list[n]) ELSE f[n - 1]
        IN  f[Len(input_list)]]

(***************************************************************************)
(* split_list: k, m = divmod(len(input_list), x); chunk i (0-based) is the *)
(* slice [i*k + min(i, m) : (i+1)*k + min(i+1, m)].                        *)
(***************************************************************************)
split_list(input_list, x) ==
    LET k == Len(input_list) \div x
        m == Len(input_list) % x
    IN  [j \in 1..x |->
            LET i == j - 1
            IN  Slice(input_list, i * k + Min(i, m), (i + 1) * k + Min(i + 1, m))]

(***************************************************************************)
(* Paths.  A path is a sequence of names, relative to output_path (for     *)
(* destinations) or to input_path (for sources); a name is its stem and    *)
(* its last suffix, as pathlib splits it.                                  *)
(***************************************************************************)
Name(stem, suffix) == [stem |-> stem, suffix |-> suffix]

\* Path.with_suffix: the last name keeps its stem and gets the new suffix
with_suffix(path, suffix) == [path EXCEPT ![Len(path)].suffix = suffix]

\* Path.parent
Parent(path) == SubSeq(path, 1, Len(path) - 1)

\* every directory mkdir(parents=True) makes for path
WithParents(path) == {SubSeq(path, 1, n) : n \in 0..Len(path)}

\* filter_name.lower() of the registered filter names
Lower(filter_name) ==
    CASE filter_name = "WITHOUT_RED" -> "without_red"
      [] filter_name = "ORIGINAL" -> "original"
      [] OTHER -> filter_name

(***************************************************************************)
(* The sources.  The kind of an entry says what the file system and the    *)
(* image library do with it:                                               *)
(*   image    opens and converts to RGBA                                   *)
(*   dir      a directory                                                  *)
(*   text     not an image (UnidentifiedImageError), decodable text        *)
(*   binary   not an image (UnidentifiedImageError), text decoding fails   *)
(*   badmode  an image that cannot be converted (ValueError)               *)
(*   missing  gone since the traversal (FileNotFoundError)                 *)
(*   noperm   unreadable (PermissionError)                                 *)
(***************************************************************************)
\* the exception open_image(image_path).convert("RGBA") raises
OpenError(kind) ==
    CASE kind = "image" -> "none"
      [] kind = "badmode" -> "ValueError"
      [] kind = "missing" -> "FileNotFoundError"
      [] kind \in {"text", "binary"} -> "UnidentifiedImageError"
      [] kind = "noperm" -> "PermissionError"

\* the exception image_path.read_bytes() / read_text() raises when opening the file
ReadError(kind) ==
    CASE kind = "missing" -> "FileNotFoundError"
      [] kind = "noperm" -> "PermissionError"
      [] OTHER -> "none"

\* whether read_text raises UnicodeDecodeError
DecodeFails(kind) == kind \in {"binary", "badmode"}

\* try_opening_image: the image, or None after a caught exception
try_opening_image(kind) ==
    IF OpenError(kind) \in {"ValueError", "FileNotFoundError", "UnidentifiedImageError",
                            "PermissionError"}
    THEN "None" ELSE "image"

A_JPG == Name("a", ".jpg")
A_PNG == Name("a", ".png")
D_DIR == Name("d", "")

\* the names an input folder may hold, in traversal order, each with the kinds tried
Universe ==
    << [name |-> A_JPG, kinds |-> {"image", "noperm", "missing"}],
       [name |-> A_PNG, kinds |-> {"image", "binary", "badmode"}],
       [name |-> D_DIR, kinds |-> {"dir", "text"}] >>

\* the input folders tried: every choice of at most MaxFiles entries
Trees ==
    LET choices == {c \in [DOMAIN Universe -> {"absent", "image", "noperm", "missing", "binary",
                                                  "badmode", "dir", "text"}] :
                        \A i \in DOMAIN Universe : c[i] \in Universe[i].kinds \cup {"absent"}}
        all(c) == [i \in DOMAIN Universe |-> [path |-> <<Universe[i].name>>, kind |-> c[i]]]
        present(e) == e.kind # "absent"
    IN  {t \in {SelectSeq(all(c), present) : c \in choices} : Len(t) <= MaxFiles}

\* the single input files tried
SingleFiles == {<<[path |-> <<A_PNG>>, kind |-> k]>> : k \in {"image", "binary"}}

\* the selections of --filters tried (dict order)
FilterChoices == {<<"WITHOUT_RED">>, <<"WITHOUT_RED", "ORIGINAL">>}

\* the values of --processes tried: rejected ones and accepted ones
ProcessChoices == {0} \cup (1..MaxProcesses) \cup {MaxAllowedProcesses + 1}

(***************************************************************************)
(* filter_and_save for one task: the set of ways the call can end.  The    *)
(* destination write either succeeds or raises an I/O error (the           *)
(* environment decides).  Each way is                                      *)
(*   [err, ok, name, path]: err the exception leaving the call ("none" on  *)
(*   a return), (name, ok) the returned future_name and was_successful,    *)
(*   path the destination written (<<>> when nothing was written).         *)
(***************************************************************************)
Ret(name, ok, path) == [err |-> "none", name |-> name, ok |-> ok, path |-> path]
Raise(err) == [err |-> err, name |-> "", ok |-> FALSE, path |-> <<>>]

\* Path.suffix of the source
SourceSuffix(task) == task.image_path[Len(task.image_path)].suffix

filter_and_save(task, end_path_to_save, policy) ==
    IF try_opening_image(task.kind) = "None"
    THEN IF policy = "copy"
         THEN IF ReadError(task.kind) # "none"
              THEN {Raise("source_read")}
              ELSE {Ret("COPIED", TRUE, with_suffix(end_path_to_save, SourceSuffix(task))),
                    Raise("dest_write")}
         ELSE IF policy = "template"
         THEN IF ReadError(task.kind) # "none"
              THEN {Raise("source_read")}
              ELSE IF DecodeFails(task.kind)
              THEN {Ret("TEMPLATED", FALSE, <<>>)}
              ELSE {Ret("TEMPLATED", TRUE, with_suffix(end_path_to_save, SourceSuffix(task))),
                    Raise("dest_write")}
         ELSE {Ret(task.filter_name, FALSE, <<>>)}
    ELSE {Ret(task.filter_name, TRUE, with_suffix(end_path_to_save, ".png")),
          Raise("dest_write")}

\* the destination filter_and_save_multiple hands to filter_and_save
EndPathToSave(task) ==
    IF task.sort_by_filter
    THEN task.path_to_save \o <<Name(Lower(task.filter_name), "")>> \o task.path_extension
    ELSE task.path_to_save \o <<Name(Lower(task.filter_name), ".png")>>

\* an assignment where the append should be: only the last outcome is kept
AppendResult_overwrite(result, outcome) == <<outcome>>

\* result.append(...)
AppendResult(result, outcome) == Append(result, outcome)

(***************************************************************************)
(* main(): the initial state is the parsed command line and the input.     *)
(* The input path exists and is a file or a folder, and the encoding       *)
(* argument is valid: the runs that parser.error ends before line 283 are  *)
(* left out.  image_filter and path_to_save are never None in a run of     *)
(* main(), so those branches of filter_and_save are left out too.          *)
(***************************************************************************)
NoRun ==
    /\ task_arguments = <<>>
    /\ created_dirs = {}
    /\ chunked = <<>>
    /\ wstate = <<>>
    /\ wpos = <<>>
    /\ wresult = <<>>
    /\ werr = <<>>
    /\ written = {}
    /\ consumed = {}
    /\ reported = <<>>

Init ==
    /\ pc = "start"
    /\ max_processes \in ProcessChoices
    /\ sort_by_filter \in BOOLEAN
    /\ other_files \in {"copy", "template", "dont_copy"}
    /\ filters_to_apply \in FilterChoices
    /\ \/ input_kind = "dir" /\ input_tree \in Trees
       \/ input_kind = "file" /\ input_tree \in SingleFiles
    /\ NoRun
    /\ sl_pc = "off" /\ sl_input = <<>> /\ sl_x = 1 /\ sl_out = <<>>

\* a stricter-looking check that lets one value too many through
ConfigRejected_off_by_one(processes) ==
    processes <= 0 \/ processes > MaxAllowedProcesses + 1

\* the bounds check of args.processes (parser.error exits the program)
ConfigRejected(processes) ==
    processes <= 0 \/ processes > MaxAllowedProcesses

main_validate ==
    /\ pc = "start"
    /\ pc' = IF ConfigRejected(max_processes) THEN "rejected" ELSE "build"
    /\ UNCHANGED <<max_processes, sort_by_filter, other_files, filters_to_apply, input_kind,
                   input_tree, task_arguments, created_dirs, chunked, wstate, wpos, wresult,
                   werr, written, consumed, reported>>
    /\ UNCHANGED splitVars

\* the task list: one entry per traversed path (in traversal order) and filter (in dict order)
BuildTasks ==
    LET F == Len(filters_to_apply)
        n == Len(input_tree) * F
    IN  [i \in 1..n |->
            LET entry == input_tree[((i - 1) \div F) + 1]
                filter_name == filters_to_apply[((i - 1) % F) + 1]
            IN  [id |-> i,
                 image_path |-> entry.path,
                 kind |-> entry.kind,
                 filter_name |-> filter_name,
                 path_to_save |-> IF input_kind = "dir" /\ ~sort_by_filter
                                  THEN entry.path ELSE <<>>,
                 sort_by_filter |-> sort_by_filter,
                 path_extension |-> IF input_kind = "dir" THEN entry.path ELSE <<>>]]

\* output_path_for_filtered_images.mkdir(exist_ok=True, parents=True), for every sub_file
BuildDirs ==
    IF input_kind = "dir"
    THEN UNION {WithParents(IF sort_by_filter THEN <<>> ELSE input_tree[i].path) :
                    i \in DOMAIN input_tree}
    ELSE {}

main_build ==
    /\ pc = "build"
    /\ task_arguments' = BuildTasks
    /\ created_dirs' = BuildDirs
    /\ pc' = "dispatch"
    /\ UNCHANGED <<max_processes, sort_by_filter, other_files, filters_to_apply, input_kind,
                   input_tree, chunked, wstate, wpos, wresult, werr, written, consumed,
                   reported>>
    /\ UNCHANGED splitVars

\* "if args:" -- only a non-empty chunk is submitted
Submitted(chunk) == chunk # <<>>

main_dispatch ==
    /\ pc = "dispatch"
    /\ chunked' = split_list(task_arguments, max_processes)
    /\ wstate' = [i \in 1..max_processes |->
                    IF Submitted(chunked'[i]) THEN "running" ELSE "none"]
    /\ wpos' = [i \in 1..max_processes |-> 0]
    /\ wresult' = [i \in 1..max_processes |-> <<>>]
    /\ werr' = [i \in 1..max_processes |-> "none"]
    /\ pc' = "wait"
    /\ UNCHANGED <<max_processes, sort_by_filter, other_files, filters_to_apply, input_kind,
                   input_tree, task_arguments, created_dirs, written, consumed, reported>>
    /\ UNCHANGED splitVars

(***************************************************************************)
(* filter_and_save_multiple, one loop iteration per step.                  *)
(***************************************************************************)
Futures == {w \in DOMAIN wstate : wstate[w] # "none"}

\* the outcome tuple (future_name, file_name, was_successful); job is the task's
\* position in task_arguments, kept to tell the outcomes of two tasks apart
Outcome(task, r) ==
    [name |-> r.name, file |-> task.image_path[Len(task.image_path)].stem, ok |-> r.ok,
     job |-> task.id]

worker_step(w) ==
    /\ wstate[w] = "running"
    /\ wpos[w] < Len(chunked[w])
    /\ LET task == chunked[w][wpos[w] + 1]
           end_path_to_save == EndPathToSave(task)
       IN  IF task.kind = "dir"
           THEN /\ wpos' = [wpos EXCEPT ![w] = @ + 1]
                /\ UNCHANGED <<wstate, wresult, werr, written, created_dirs>>
           ELSE /\ created_dirs' = IF task.sort_by_filter
                                   THEN created_dirs \cup WithParents(Parent(end_path_to_save))
                                   ELSE created_dirs
                /\ \E r \in filter_and_save(task, end_path_to_save, other_files) :
                      IF r.err = "none"
                      THEN /\ wresult' = [wresult EXCEPT ![w] = AppendResult(@, Outcome(task, r))]
                           /\ written' = IF r.path = <<>> THEN written
                                         ELSE written \cup {[job |-> task.id, path |-> r.path]}
                           /\ wpos' = [wpos EXCEPT ![w] = @ + 1]
                           /\ UNCHANGED <<wstate, werr>>
                      ELSE /\ wstate' = [wstate EXCEPT ![w] = "raised"]
                           /\ werr' = [werr EXCEPT ![w] = r.err]
                           /\ UNCHANGED <<wresult, written, wpos>>
    /\ UNCHANGED <<pc, max_processes, sort_by_filter, other_files, filters_to_apply,
                   input_kind, input_tree, task_arguments, chunked, consumed, reported>>
    /\ UNCHANGED splitVars

\* "return result": the future gets its result
worker_return(w) ==
    /\ wstate[w] = "running"
    /\ wpos[w] = Len(chunked[w])
    /\ wstate' = [wstate EXCEPT ![w] = "done"]
    /\ UNCHANGED <<pc, max_processes, sort_by_filter, other_files, filters_to_apply,
                   input_kind, input_tree, task_arguments, created_dirs, chunked, wpos,
                   wresult, werr, written, consumed, reported>>
    /\ UNCHANGED splitVars

(***************************************************************************)
(* The main loop over as_completed(futures).                               *)
(***************************************************************************)
\* a loop that takes what a future has so far without waiting for it
FutureFinished_no_wait(w) == wstate[w] \in {"running", "done", "raised"}

\* as_completed yields a future once it has a result or an exception
FutureFinished(w) == wstate[w] \in {"done", "raised"}

\* a join on the first future only
AllFuturesConsumed_first_only == Futures = {} \/ consumed # {}

\* as_completed is exhausted
AllFuturesConsumed == consumed = Futures

\* future.result() of a future that returned
FutureResult(w) == wresult[w]

main_collect(w) ==
    /\ pc = "wait"
    /\ w \in Futures
    /\ w \notin consumed
    /\ FutureFinished(w)
    /\ consumed' = consumed \cup {w}
    /\ IF wstate[w] = "raised"
       THEN /\ pc' = "aborted"
            /\ UNCHANGED reported
       ELSE /\ reported' = reported \o FutureResult(w)
            /\ UNCHANGED pc
    /\ UNCHANGED <<max_processes, sort_by_filter, other_files, filters_to_apply, input_kind,
                   input_tree, task_arguments, created_dirs, chunked, wstate, wpos, wresult,
                   werr, written>>
    /\ UNCHANGED splitVars

\* print("All threads are done!")
main_finish ==
    /\ pc = "wait"
    /\ AllFuturesConsumed
    /\ pc' = "done"
    /\ UNCHANGED <<max_processes, sort_by_filter, other_files, filters_to_apply, input_kind,
                   input_tree, task_arguments, created_dirs, chunked, wstate, wpos, wresult,
                   werr, written, consumed, reported>>
    /\ UNCHANGED splitVars

MainNext ==
    \/ main_validate
    \/ main_build
    \/ main_dispatch
    \/ \E w \in DOMAIN wstate : main_collect(w)
    \/ main_finish

WorkerNext ==
    \/ \E w \in DOMAIN wstate : worker_step(w)
    \/ \E w \in DOMAIN wstate : worker_return(w)

Next == MainNext \/ WorkerNext

Spec == Init /\ [][Next]_vars

\* the pool runs every submitted call, and the main process is never starved
FairSpec == Spec /\ WF_vars(MainNext) /\ WF_vars(WorkerNext)

(***************************************************************************)
(* split_list on its own.                                                  *)
(***************************************************************************)
\* the costs tried for a job
CostChoices == {1, 10}

\* the job lists tried: job i of the list has id i and a cost
JobLists ==
    UNION {{[i \in 1..n |-> [id |-> i, cost |-> c[i]]] : c \in [1..n -> CostChoices]} :
              n \in 0..MaxLen}

SplitInit ==
    /\ sl_pc = "input"
    /\ sl_input \in JobLists
    /\ sl_x \in 1..MaxX
    /\ sl_out = <<>>
    /\ pc = "off"
    /\ max_processes = 1
    /\ sort_by_filter = FALSE
    /\ other_files = "dont_copy"
    /\ filters_to_apply = <<>>
    /\ input_kind = "dir"
    /\ input_tree = <<>>
    /\ NoRun

ApplySplit ==
    /\ sl_pc = "input"
    /\ sl_out' = split_list(sl_input, sl_x)
    /\ sl_pc' = "done"
    /\ UNCHANGED <<sl_input, sl_x>>
    /\ UNCHANGED mainVars

SplitNext == ApplySplit

SplitSpec == SplitInit /\ [][SplitNext]_vars

(***************************************************************************)
(* Properties of split_list (checked under SplitSpec).                     *)
(***************************************************************************)
\* the places (chunk, position) of the result that hold job e
Places(out, e) == {bk \in UNION {{<<b, k>> : k \in DOMAIN out[b]} : b \in DOMAIN out} :
                      out[bk[1]][bk[2]] = e}

\* C1: for every job list and every chunk count x >= 1, split_list returns exactly x
\* batches, every input job is in exactly one batch exactly once, no batch holds
\* anything else, and with fewer jobs than batches the surplus batches are empty.
C1_ExactPartition ==
    sl_pc = "done" =>
        /\ Len(sl_out) = sl_x
        /\ \A i \in DOMAIN sl_input : Cardinality(Places(sl_out, sl_input[i])) = 1
        /\ \A b \in DOMAIN sl_out : Range(sl_out[b]) \subseteq Range(sl_input)
        /\ Len(sl_input) < sl_x =>
              Cardinality({b \in DOMAIN sl_out : sl_out[b] = <<>>}) = sl_x - Len(sl_input)

\* C1 witness: two jobs split three ways, the third batch empty
C1_Witness ==
    /\ sl_pc = "done"
    /\ Len(sl_input) = 2
    /\ sl_x = 3
    /\ sl_out[1] # <<>>
    /\ sl_out[3] = <<>>

C10_ContiguousNearEqual ==
    sl_pc = "done" =>
        /\ Len(sl_out) = sl_x
        /\ Flatten(sl_out) = sl_input
        /\ \A j \in DOMAIN sl_out :
              Len(sl_out[j]) = (Len(sl_input) \div sl_x)
                               + (IF j <= Len(sl_input) % sl_x THEN 1 ELSE 0)

\* C10 witness: five jobs in three slices of lengths 2, 2, 1
C10_Witness ==
    /\ sl_pc = "done"
    /\ Len(sl_input) = 5
    /\ sl_x = 3
    /\ Len(sl_out[1]) = 2
    /\ Len(sl_out[3]) = 1

(***************************************************************************)
(* Properties of the run (checked under Spec, C9 under FairSpec).          *)
(***************************************************************************)
Jobs == DOMAIN task_arguments

\* how many of the outcomes the main loop printed are job j's
Reports(j) == Cardinality({i \in DOMAIN reported : reported[i].job = j})

\* the outcomes of worker w that the main loop has printed
ReportedOf(w) == {i \in DOMAIN reported :
                     \E k \in DOMAIN chunked[w] : chunked[w][k].id = reported[i].job}

JobFails(task) ==
    /\ task.kind # "dir"
    /\ try_opening_image(task.kind) = "None"
    /\ \/ other_files = "dont_copy"
       \/ ReadError(task.kind) # "none"
       \/ other_files = "template" /\ DecodeFails(task.kind)

\* C4 as claimed: a job that fails on its own item never unwinds out of its worker
\* (no worker is left by an exception of a source), and once the worker is past
\* it, it has an outcome with succeeded = false.
C4_PerItemFailureContained ==
    \A w \in Futures :
        /\ werr[w] # "source_read"
        /\ \A k \in 1..wpos[w] :
              JobFails(chunked[w][k]) =>
                  \E i \in DOMAIN wresult[w] :
                      wresult[w][i].job = chunked[w][k].id /\ ~wresult[w][i].ok

\* what the main loop can take from worker w's future
Observable(w) == IF wstate[w] = "done" THEN Range(FutureResult(w)) ELSE {}

C6_DistinctDestinations ==
    \A e1, e2 \in written : e1.path = e2.path => e1.job = e2.job

\* C7 as claimed: when a fatal failure in a worker has aborted the run, the outcomes
\* of the jobs that worker had finished before it failed are reported.
C7_PartialReportKept ==
    pc = "aborted" =>
        \A w \in Futures :
            wstate[w] = "raised" =>
                \A k \in DOMAIN wresult[w] :
                    \E i \in DOMAIN reported : reported[i] = wresult[w][k]

\* C8: a worker count <= 0 or > 61 is rejected before any work: no task list is
\* built, no directory is created, nothing is partitioned, no worker is submitted.
C8_RejectedBeforeWork ==
    (pc # "off" /\ (max_processes <= 0 \/ max_processes > MaxAllowedProcesses)) =>
        /\ pc \in {"start", "rejected"}
        /\ NoRun

\* C8 witness: a run over a non-empty folder rejected for its worker count
C8_Witness ==
    /\ pc = "rejected"
    /\ max_processes > MaxAllowedProcesses
    /\ input_tree # <<>>

\* the dispatcher's part of C9 that every state satisfies
C9_Dispatch ==
    pc \in {"wait", "done", "aborted"} =>
        /\ \A i \in DOMAIN chunked : (wstate[i] # "none") <=> (chunked[i] # <<>>)
        /\ pc = "done" =>
              \A w \in Futures : wstate[w] = "done" /\ wpos[w] = Len(chunked[w])

\* C9: one worker is submitted per non-empty batch and none for an empty batch; the
\* run is announced complete only after every submitted worker has finished all
\* the jobs of its batch; and unless a worker fails fatally (or the configuration
\* is rejected) the announcement is eventually reached.
C9_JoinAll ==
    /\ []C9_Dispatch
    /\ <>(pc \in {"done", "rejected"} \/ \E w \in DOMAIN wstate : wstate[w] = "raised")

\* C9 witness: a completed run of two workers or more with an empty batch skipped
C9_Witness ==
    /\ pc = "done"
    /\ Cardinality(Futures) >= 2
    /\ \E i \in DOMAIN wstate : wstate[i] = "none"
    /\ \A w \in Futures : Len(chunked[w]) >= 1

====
